---- MODULE Spec2Model ----
(***************************************************************************)
(* Voice assistant platform, state-machine service.                        *)
(*                                                                         *)
(* The model follows ConversationStateMachine (state/StateMachine.ts):     *)
(* the session registry, the transition table, transitionTo, handleEvent   *)
(* with its nine handlers, deleteSession, and the two setTimeout callbacks *)
(* (interrupt dwell, error recovery).  Handlers are sequential code, so    *)
(* each is an operator from a store (registry, session objects, emitted    *)
(* observations, pending timers) to a store; an action commits the store   *)
(* the handler returns.                                                    *)
(*                                                                         *)
(* The service (index.ts) wires the state machine to the WebRTCHandler     *)
(* (handlers/WebRTCHandler.ts) and the ConversationOrchestrator            *)
(* (handlers/Orchestrator.ts): the second half of the model follows that   *)
(* wiring, with one action per HTTP route, socket message, timer and       *)
(* backend response.                                                       *)
(***************************************************************************)
EXTENDS Integers, Sequences, FiniteSets, TLC

VARIABLES
  sessions,   \* keys of the Map<string, Session> registry
  obj,        \* the Session objects, by session_id (they outlive the registry entry)
  emitted,    \* per session, the observations the state machine emitted, in order
  delivered,  \* per session, what the session showed the listeners of each
              \* state_change the last call emitted
  timers,     \* per session, the pending setTimeout callbacks: the interrupt dwells
              \* (a count) and the error recoveries (in the order they were armed)
  last,       \* the last call or callback run on the state machine and what it returned
  flow,       \* per session, how far the scripted conversation turn has got
  connections,   \* WebRTCHandler.connections: the sessions with an open socket
  audioStreams,  \* WebRTCHandler.audioStreams: the sessions whose user is speaking
  silenceTimers, \* WebRTCHandler.silenceTimers: the sessions with a pending silence timer
  sent,          \* per session, the frames written to its socket, in order
  turns,         \* per session, the processTurn activations and where each one is
  graceTimers,   \* per session, the pending deletion callbacks of 'disconnected'
  vadEvents,     \* per session, the VAD events the WebRTCHandler emitted, in order
  sockets,       \* per session, the open sockets handleConnection put its listeners on
  now            \* the clock: what Date.now() returns

\* The state of the service around the state machine.
svc == <<connections, audioStreams, silenceTimers, sent, turns, graceTimers, vadEvents,
         sockets>>

vars == <<sessions, obj, emitted, delivered, timers, last, flow, svc, now>>

----------------------------------------------------------------------------
(* Bounds of the model *)

\* Calls are accepted while a session has fewer transition records than this.
MaxHistory == 5
\* user_audio is accepted while the audio buffer holds fewer chunks than this.
MaxAudio == 1
\* error events are accepted while error_count is below this.
MaxErrors == 1

SessionIds == {"s1"}
\* The ids of the specifications with several sessions side by side.
RegistryIds == {"s1", "s2", "s3"}
AllIds == SessionIds \cup RegistryIds
Configs == {"cfg"}
Chunks == {"chunk"}
Texts == {<<>>, <<" ">>, <<"a">>}
Responses == {[text |-> <<"o", "k">>]}
StreamIds == {"stream-123"}
Errors == {"Test error"}

----------------------------------------------------------------------------
(* ConversationState and the transition table *)

IDLE == "idle"
LISTENING == "listening"
TRANSCRIBING == "transcribing"
INTERPRETING == "interpreting"
ANSWERING == "answering"
SPEAKING == "speaking"
INTERRUPTED == "interrupted"
ERROR == "error"
ENDED == "ended"

ConversationState ==
  {IDLE, LISTENING, TRANSCRIBING, INTERPRETING, ANSWERING, SPEAKING,
   INTERRUPTED, ERROR, ENDED}

\* Variant: the table as the class comment describes it, "ANY -> INTERRUPTED".
transitionRulesAnyInterrupted ==
  [s \in ConversationState \ {ENDED} |->
     CASE s = IDLE         -> {LISTENING, INTERRUPTED, ENDED}
       [] s = LISTENING    -> {TRANSCRIBING, IDLE, INTERRUPTED, ENDED}
       [] s = TRANSCRIBING -> {INTERPRETING, LISTENING, INTERRUPTED, ERROR, ENDED}
       [] s = INTERPRETING -> {ANSWERING, INTERRUPTED, ERROR, ENDED}
       [] s = ANSWERING    -> {SPEAKING, INTERRUPTED, ERROR, ENDED}
       [] s = SPEAKING     -> {LISTENING, IDLE, INTERRUPTED, ERROR, ENDED}
       [] s = INTERRUPTED  -> {LISTENING, IDLE, ENDED}
       [] s = ERROR        -> {IDLE, LISTENING, INTERRUPTED, ENDED}]

\* Variant: ENDED has an entry, which leads back to IDLE.
transitionRulesEndedReopens ==
  [s \in ConversationState |->
     CASE s = IDLE         -> {LISTENING, ENDED}
       [] s = LISTENING    -> {TRANSCRIBING, IDLE, INTERRUPTED, ENDED}
       [] s = TRANSCRIBING -> {INTERPRETING, LISTENING, INTERRUPTED, ERROR, ENDED}
       [] s = INTERPRETING -> {ANSWERING, INTERRUPTED, ERROR, ENDED}
       [] s = ANSWERING    -> {SPEAKING, INTERRUPTED, ERROR, ENDED}
       [] s = SPEAKING     -> {LISTENING, IDLE, INTERRUPTED, ERROR, ENDED}
       [] s = INTERRUPTED  -> {LISTENING, IDLE, ENDED}
       [] s = ERROR        -> {IDLE, LISTENING, ENDED}
       [] s = ENDED        -> {IDLE}]

\* The Map built by initializeTransitionRules; ENDED has no entry.
transitionRules ==
  [s \in ConversationState \ {ENDED} |->
     CASE s = IDLE         -> {LISTENING, ENDED}
       [] s = LISTENING    -> {TRANSCRIBING, IDLE, INTERRUPTED, ENDED}
       [] s = TRANSCRIBING -> {INTERPRETING, LISTENING, INTERRUPTED, ERROR, ENDED}
       [] s = INTERPRETING -> {ANSWERING, INTERRUPTED, ERROR, ENDED}
       [] s = ANSWERING    -> {SPEAKING, INTERRUPTED, ERROR, ENDED}
       [] s = SPEAKING     -> {LISTENING, IDLE, INTERRUPTED, ERROR, ENDED}
       [] s = INTERRUPTED  -> {LISTENING, IDLE, ENDED}
       [] s = ERROR        -> {IDLE, LISTENING, ENDED}]

----------------------------------------------------------------------------
(* Transition metadata: Record<string, any> with at most one key per call site *)

NoMeta == [key |-> "none", str |-> "", num |-> 0, text |-> <<>>]
MetaAudioChunks(n) == [NoMeta EXCEPT !.key = "audio_chunks", !.num = n]
MetaInterruptedState(s) == [NoMeta EXCEPT !.key = "interrupted_state", !.str = s]
MetaTranscript(t) == [NoMeta EXCEPT !.key = "transcript", !.text = t]
MetaResponseLength(n) == [NoMeta EXCEPT !.key = "response_length", !.num = n]
MetaError(e) == [NoMeta EXCEPT !.key = "error", !.str = e]

----------------------------------------------------------------------------
(* String.prototype.trim, on a text held as a sequence of characters *)

IsSpace(c) == c = " "

RECURSIVE TrimStart(_)
TrimStart(t) ==
  IF t # <<>> /\ IsSpace(Head(t)) THEN TrimStart(Tail(t)) ELSE t

RECURSIVE TrimEnd(_)
TrimEnd(t) ==
  IF t # <<>> /\ IsSpace(t[Len(t)]) THEN TrimEnd(SubSeq(t, 1, Len(t) - 1)) ELSE t

Trim(t) == TrimEnd(TrimStart(t))

----------------------------------------------------------------------------
(* The store the methods work on *)

\* The listeners of the calls before have returned.
Store ==
  [sessions |-> sessions, obj |-> obj, emitted |-> emitted,
   delivered |-> [sid \in DOMAIN obj |-> <<>>], timers |-> timers, now |-> now]

\* An optional field holds <<>> (undefined) or <<v>>.
\* created is the time of the call.
NewSession(config, created) ==
  [config |-> config,
   state |-> IDLE,
   conversation_history |-> <<>>,
   current_turn |-> <<>>,
   audio_buffer |-> <<>>,
   transcript_buffer |-> <<>>,
   pending_response |-> <<>>,
   tts_stream_id |-> <<>>,
   metrics |-> [total_turns |-> 0, interruption_count |-> 0, error_count |-> 0],
   state_history |-> <<>>,
   last_activity |-> created]

\* What a state_change observation shows of the live session object it
\* hands its listeners: the fields the handlers go on writing after a
\* transition.
Shown(session) ==
  [conversation_history |-> session.conversation_history,
   audio_buffer |-> session.audio_buffer,
   transcript_buffer |-> session.transcript_buffer,
   pending_response |-> session.pending_response,
   tts_stream_id |-> session.tts_stream_id,
   metrics |-> session.metrics]

\* emit runs the listeners before it returns: they read the session as it
\* is.  The store is taken as a value, once.
Show(st, sid) ==
  CHOOSE shown \in {[s EXCEPT !.delivered[sid] = Append(@, Shown(s.obj[sid]))] : s \in {st}} :
    TRUE

Emit(st, sid, observation) ==
  [st EXCEPT !.emitted[sid] = Append(@, observation)]

SetTimeout(st, sid, kind) ==
  [st EXCEPT !.timers[sid][kind] = @ + 1]

\* The records of a history that enter ERROR: the ERROR episodes so far.
Episodes(history) == Cardinality({i \in DOMAIN history : history[i].to = ERROR})

\* handleError's setTimeout.  Callbacks of one delay run in the order they
\* were armed; each is kept with the ERROR episode it was armed in and
\* whether the event that armed it made the session enter that episode.
SetRecoveryTimeout(st, sid, entered) ==
  [st EXCEPT !.timers[sid].error =
     Append(@, [episode |-> Episodes(st.obj[sid].state_history), entered |-> entered])]

----------------------------------------------------------------------------
(* createSession *)

\* Variant: the session is not put in the registry.
createSessionUnregistered(st, sid, config) ==
  [sessions |-> st.sessions,
   obj      |-> (sid :> NewSession(config, st.now)) @@ st.obj,
   emitted  |-> (sid :> <<[type |-> "session_created", from |-> "", to |-> "", stream |-> <<>>]>>)
                  @@ st.emitted,
   delivered |-> (sid :> <<>>) @@ st.delivered,
   timers   |-> (sid :> [interrupt |-> 0, error |-> <<>>]) @@ st.timers,
   now      |-> st.now]

createSession(st, sid, config) ==
  [sessions |-> st.sessions \cup {sid},
   obj      |-> (sid :> NewSession(config, st.now)) @@ st.obj,
   emitted  |-> (sid :> <<[type |-> "session_created", from |-> "", to |-> "", stream |-> <<>>]>>)
                  @@ st.emitted,
   delivered |-> (sid :> <<>>) @@ st.delivered,
   timers   |-> (sid :> [interrupt |-> 0, error |-> <<>>]) @@ st.timers,
   now      |-> st.now]

----------------------------------------------------------------------------
(* getSession, getActiveSessions *)

\* The session, or <<>> for undefined.
getSession(st, sid) == IF sid \in st.sessions THEN <<st.obj[sid]>> ELSE <<>>

getActiveSessions(st) == {sid \in st.sessions : st.obj[sid].state # ENDED}

----------------------------------------------------------------------------
(* transitionTo: returns the store and the boolean result *)

\* Variant: the table is not consulted.
transitionToUnchecked(st, sid, newState, metadata) ==
  IF sid \notin st.sessions
  THEN [st |-> st, ok |-> FALSE]
  ELSE
    LET currentState == st.obj[sid].state
        transition == [from |-> currentState, to |-> newState,
                       event |-> "state_change", metadata |-> metadata]
        moved == [st EXCEPT !.obj[sid].state = newState,
                            !.obj[sid].state_history = Append(@, transition),
                            !.obj[sid].last_activity = st.now]
    IN [st |-> Emit(Show(moved, sid), sid,
                    [type |-> "state_change", from |-> currentState,
                     to |-> newState, stream |-> <<>>]),
        ok |-> TRUE]

\* Variant: the state is set but the transition is not pushed to state_history.
transitionToUnrecorded(st, sid, newState, metadata) ==
  IF sid \notin st.sessions
  THEN [st |-> st, ok |-> FALSE]
  ELSE
    LET currentState == st.obj[sid].state
        valid == /\ currentState \in DOMAIN transitionRules
                 /\ newState \in transitionRules[currentState]
        moved == [st EXCEPT !.obj[sid].state = newState,
                            !.obj[sid].last_activity = st.now]
    IN IF ~valid
       THEN [st |-> st, ok |-> FALSE]
       ELSE [st |-> Emit(Show(moved, sid), sid,
                         [type |-> "state_change", from |-> currentState,
                          to |-> newState, stream |-> <<>>]),
             ok |-> TRUE]

transitionTo(st, sid, newState, metadata) ==
  IF sid \notin st.sessions
  THEN [st |-> st, ok |-> FALSE]
  ELSE
    LET currentState == st.obj[sid].state
        valid == /\ currentState \in DOMAIN transitionRules
                 /\ newState \in transitionRules[currentState]
        transition == [from |-> currentState, to |-> newState,
                       event |-> "state_change", metadata |-> metadata]
        moved == [st EXCEPT !.obj[sid].state = newState,
                            !.obj[sid].state_history = Append(@, transition),
                            !.obj[sid].last_activity = st.now]
    IN IF ~valid
       THEN [st |-> st, ok |-> FALSE]
       ELSE [st |-> Emit(Show(moved, sid), sid,
                         [type |-> "state_change", from |-> currentState,
                          to |-> newState, stream |-> <<>>]),
             ok |-> TRUE]

----------------------------------------------------------------------------
(* deleteSession: returns the store and the boolean result *)

\* Variant: the registry entry is kept.
deleteSessionKeepsEntry(st, sid) ==
  IF sid \notin st.sessions
  THEN [st |-> st, ok |-> FALSE]
  ELSE
    LET ended == transitionTo(st, sid, ENDED, NoMeta).st
    IN [st |-> Emit(ended, sid,
                    [type |-> "session_deleted", from |-> "", to |-> "", stream |-> <<>>]),
        ok |-> TRUE]

deleteSession(st, sid) ==
  IF sid \notin st.sessions
  THEN [st |-> st, ok |-> FALSE]
  ELSE
    LET ended == transitionTo(st, sid, ENDED, NoMeta).st
        removed == [ended EXCEPT !.sessions = @ \ {sid}]
    IN [st |-> Emit(removed, sid,
                    [type |-> "session_deleted", from |-> "", to |-> "", stream |-> <<>>]),
        ok |-> TRUE]

----------------------------------------------------------------------------
(* cleanupStaleSessions: the loop over the entries of the registry, then  *)
(* the method.  Returns the store and the count.                           *)

\* Variant: a session is stale from age maxAgeMs on.
IsStaleFromAge(st, session_id, maxAgeMs) ==
  LET age == st.now - st.obj[session_id].last_activity
  IN age >= maxAgeMs

\* The test of the loop body.
IsStale(st, session_id, maxAgeMs) ==
  LET age == st.now - st.obj[session_id].last_activity
  IN age > maxAgeMs

\* The for loop, on the entries not visited yet.  Deleting one entry does not
\* touch another, so the order of the visit does not show in the result.
RECURSIVE cleanupEntries(_, _, _)
cleanupEntries(st, entries, maxAgeMs) ==
  IF entries = {}
  THEN [st |-> st, cleaned |-> 0]
  ELSE
    LET session_id == CHOOSE sid \in entries : TRUE
        rest == entries \ {session_id}
    IN IF IsStale(st, session_id, maxAgeMs)
       THEN LET r == cleanupEntries(deleteSession(st, session_id).st, rest, maxAgeMs)
            IN [st |-> r.st, cleaned |-> r.cleaned + 1]
       ELSE cleanupEntries(st, rest, maxAgeMs)

cleanupStaleSessions(st, maxAgeMs) == cleanupEntries(st, st.sessions, maxAgeMs)

----------------------------------------------------------------------------
(* The event handlers.  Each takes the store and the session's id; the     *)
(* session object is st.obj[sid].                                          *)

\* Variant: the interrupt is not limited to SPEAKING and ANSWERING.
handleUserInterruptAnyState(st, sid) ==
  LET currentState == st.obj[sid].state
      t == transitionTo(st, sid, INTERRUPTED, MetaInterruptedState(currentState)).st
      counted == [t EXCEPT !.obj[sid].metrics.interruption_count = @ + 1]
      stopped == Emit(counted, sid,
                      [type |-> "stop_tts", from |-> "", to |-> "",
                       stream |-> counted.obj[sid].tts_stream_id])
  IN SetTimeout(stopped, sid, "interrupt")

\* Variant: the interrupt is not counted.
handleUserInterruptUncounted(st, sid) ==
  LET currentState == st.obj[sid].state
  IN IF currentState = SPEAKING \/ currentState = ANSWERING
     THEN
       LET t == transitionTo(st, sid, INTERRUPTED, MetaInterruptedState(currentState)).st
           stopped == Emit(t, sid,
                           [type |-> "stop_tts", from |-> "", to |-> "",
                            stream |-> t.obj[sid].tts_stream_id])
       IN SetTimeout(stopped, sid, "interrupt")
     ELSE st

\* The callback only runs later: here the handler arms it.
handleUserInterrupt(st, sid) ==
  LET currentState == st.obj[sid].state
  IN IF currentState = SPEAKING \/ currentState = ANSWERING
     THEN
       LET t == transitionTo(st, sid, INTERRUPTED, MetaInterruptedState(currentState)).st
           counted == [t EXCEPT !.obj[sid].metrics.interruption_count = @ + 1]
           stopped == Emit(counted, sid,
                           [type |-> "stop_tts", from |-> "", to |-> "",
                            stream |-> counted.obj[sid].tts_stream_id])
       IN SetTimeout(stopped, sid, "interrupt")
     ELSE st

handleVADStart(st, sid) ==
  IF st.obj[sid].state = IDLE
  THEN transitionTo(st, sid, LISTENING, NoMeta).st
  ELSE IF st.obj[sid].state = SPEAKING
       THEN handleUserInterrupt(st, sid)
       ELSE st

handleVADEnd(st, sid) ==
  IF st.obj[sid].state = LISTENING
  THEN transitionTo(st, sid, TRANSCRIBING,
                    MetaAudioChunks(Len(st.obj[sid].audio_buffer))).st
  ELSE st

handleUserAudio(st, sid, data) ==
  LET buffered == [st EXCEPT !.obj[sid].audio_buffer = Append(@, data)]
  IN IF buffered.obj[sid].state = IDLE
     THEN transitionTo(buffered, sid, LISTENING, NoMeta).st
     ELSE buffered

handleTranscriptionFinal(st, sid, data) ==
  IF st.obj[sid].state = TRANSCRIBING
  THEN
    LET pushed == [st EXCEPT !.obj[sid].transcript_buffer = Append(@, data)]
        t == transitionTo(pushed, sid, INTERPRETING, MetaTranscript(data.text)).st
    IN [t EXCEPT !.obj[sid].audio_buffer = <<>>]
  ELSE st

handleLLMResponseComplete(st, sid, data) ==
  IF st.obj[sid].state = INTERPRETING
  THEN
    LET pending == [st EXCEPT !.obj[sid].pending_response = <<data>>]
    IN transitionTo(pending, sid, ANSWERING, MetaResponseLength(Len(data.text))).st
  ELSE st

handleTTSStart(st, sid, data) ==
  IF st.obj[sid].state = ANSWERING
  THEN
    LET streaming == [st EXCEPT !.obj[sid].tts_stream_id = <<data.stream_id>>]
    IN transitionTo(streaming, sid, SPEAKING, NoMeta).st
  ELSE st

\* Variant: the completed turn is pushed but not counted.
handleTTSCompleteUncounted(st, sid) ==
  IF st.obj[sid].state = SPEAKING
  THEN
    LET t == transitionTo(st, sid, IDLE, NoMeta).st
        recorded ==
          IF t.obj[sid].current_turn # <<>>
          THEN [t EXCEPT !.obj[sid].conversation_history = Append(@, t.obj[sid].current_turn[1]),
                         !.obj[sid].current_turn = <<>>]
          ELSE t
    IN [recorded EXCEPT !.obj[sid].transcript_buffer = <<>>,
                        !.obj[sid].pending_response = <<>>,
                        !.obj[sid].tts_stream_id = <<>>]
  ELSE st

handleTTSComplete(st, sid) ==
  IF st.obj[sid].state = SPEAKING
  THEN
    LET t == transitionTo(st, sid, IDLE, NoMeta).st
        recorded ==
          IF t.obj[sid].current_turn # <<>>
          THEN [t EXCEPT !.obj[sid].conversation_history = Append(@, t.obj[sid].current_turn[1]),
                         !.obj[sid].metrics.total_turns = @ + 1,
                         !.obj[sid].current_turn = <<>>]
          ELSE t
    IN [recorded EXCEPT !.obj[sid].transcript_buffer = <<>>,
                        !.obj[sid].pending_response = <<>>,
                        !.obj[sid].tts_stream_id = <<>>]
  ELSE st

\* Variant: the recovery callback is not armed.
handleErrorNoRecovery(st, sid, error) ==
  LET t == transitionTo(st, sid, ERROR, MetaError(error)).st
  IN [t EXCEPT !.obj[sid].metrics.error_count = @ + 1]

handleError(st, sid, error) ==
  LET r == transitionTo(st, sid, ERROR, MetaError(error))
      counted == [r.st EXCEPT !.obj[sid].metrics.error_count = @ + 1]
  IN SetRecoveryTimeout(counted, sid, r.ok)

\* EventType values handleEvent dispatches on; any other type is forwarded.
HandledEvents ==
  {"vad_start", "vad_end", "user_audio", "user_interrupt", "transcription_final",
   "llm_response_complete", "tts_start", "tts_complete", "error"}
ForwardedEvents == {"llm_thinking"}

\* Forwarded events are re-emitted to their own listeners and touch no session.
handleEvent(st, sid, event, data) ==
  IF sid \notin st.sessions
  THEN st
  ELSE
    LET active == [st EXCEPT !.obj[sid].last_activity = st.now]
    IN CASE event = "vad_start"             -> handleVADStart(active, sid)
         [] event = "vad_end"               -> handleVADEnd(active, sid)
         [] event = "user_audio"            -> handleUserAudio(active, sid, data)
         [] event = "user_interrupt"        -> handleUserInterrupt(active, sid)
         [] event = "transcription_final"   -> handleTranscriptionFinal(active, sid, data)
         [] event = "llm_response_complete" -> handleLLMResponseComplete(active, sid, data)
         [] event = "tts_start"             -> handleTTSStart(active, sid, data)
         [] event = "tts_complete"          -> handleTTSComplete(active, sid)
         [] event = "error"                 -> handleError(active, sid, data)
         [] OTHER                           -> active

\* The data an event of each type carries.
EventData(event) ==
  CASE event = "user_audio"            -> Chunks
    [] event = "transcription_final"   -> [text : Texts]
    [] event = "llm_response_complete" -> Responses
    [] event = "tts_start"             -> [stream_id : StreamIds]
    [] event = "error"                 -> Errors
    [] OTHER                           -> {"none"}

----------------------------------------------------------------------------
(* The setTimeout callbacks *)

\* Variant: the dwell ends in IDLE.
interruptTimeoutToIdle(st, sid) ==
  IF st.obj[sid].state = INTERRUPTED
  THEN transitionTo(st, sid, IDLE, NoMeta).st
  ELSE st

\* handleUserInterrupt's callback, 200 ms after it was armed.
interruptTimeout(st, sid) ==
  IF st.obj[sid].state = INTERRUPTED
  THEN transitionTo(st, sid, LISTENING, NoMeta).st
  ELSE st

\* handleError's callback, 2000 ms after it was armed.
errorTimeout(st, sid) ==
  IF st.obj[sid].state = ERROR
  THEN transitionTo(st, sid, IDLE, NoMeta).st
  ELSE st

----------------------------------------------------------------------------
(* The end of ConversationOrchestrator.processTurn, as the state machine   *)
(* sees it: current_turn is set on the session object, tts_complete is     *)
(* emitted, and the listener of index.ts hands it to handleEvent when the  *)
(* session is still registered.                                            *)

Turns == {[user_text |-> <<"a">>, assistant_text |-> <<"o", "k">>]}

processTurnEnd(st, sid, turn) ==
  LET updated == [st EXCEPT !.obj[sid].current_turn = <<turn>>]
  IN IF getSession(updated, sid) = <<>>
     THEN updated
     ELSE handleEvent(updated, sid, "tts_complete", "none")

----------------------------------------------------------------------------
(* The scripted turn of the "Complete Conversation Flow" test: the events  *)
(* it sends, in order.  flow[sid] = k when exactly the first k of them     *)
(* have been handled on the session since it was created, and -1 once      *)
(* anything else has happened to it.                                       *)

FlowScript ==
  <<"vad_start", "transcription_final", "llm_response_complete", "tts_start",
    "tts_complete">>

FlowStep(k, event, data) ==
  IF /\ k >= 0
     /\ k < Len(FlowScript)
     /\ event = FlowScript[k + 1]
     /\ (event = "transcription_final" => data.text = <<"a">>)
  THEN k + 1
  ELSE -1

----------------------------------------------------------------------------
(* Actions *)

Commit(st) ==
  /\ sessions' = st.sessions
  /\ obj' = st.obj
  /\ emitted' = st.emitted
  /\ delivered' = st.delivered
  /\ timers' = st.timers
  /\ now' = st.now

Known(sid) == sid \in DOMAIN obj

\* Calls are accepted while the session's history is below the bound; a
\* session that is SPEAKING takes one more, so that the turn it is in can end.
Accepting(sid) ==
  Known(sid) => \/ Len(obj[sid].state_history) < MaxHistory
                \/ obj[sid].state = SPEAKING

OffScript(sid) == IF Known(sid) THEN [flow EXCEPT ![sid] = -1] ELSE flow

CallCreateSession(sid, config) ==
  /\ ~Known(sid)
  /\ Commit(createSession(Store, sid, config))
  /\ last' = [op |-> "createSession", sid |-> sid, value |-> "session"]
  /\ flow' = (sid :> 0) @@ flow
  /\ UNCHANGED svc

CallDeleteSession(sid) ==
  /\ Accepting(sid)
  /\ LET r == deleteSession(Store, sid)
     IN /\ Commit(r.st)
        /\ last' = [op |-> "deleteSession", sid |-> sid, value |-> IF r.ok THEN "true" ELSE "false"]
  /\ flow' = OffScript(sid)
  /\ UNCHANGED svc

CallTransitionTo(sid, newState) ==
  /\ Accepting(sid)
  /\ LET r == transitionTo(Store, sid, newState, NoMeta)
     IN /\ Commit(r.st)
        /\ last' = [op |-> "transitionTo", sid |-> sid, value |-> IF r.ok THEN "true" ELSE "false"]
  /\ flow' = OffScript(sid)
  /\ UNCHANGED svc

CallHandleEvent(sid, event, data) ==
  /\ Accepting(sid)
  /\ event = "user_audio" /\ Known(sid) => Len(obj[sid].audio_buffer) < MaxAudio
  /\ event = "error" /\ Known(sid) => obj[sid].metrics.error_count < MaxErrors
  /\ Commit(handleEvent(Store, sid, event, data))
  /\ last' = [op |-> "handleEvent", sid |-> sid, value |-> "void"]
  /\ flow' = IF Known(sid) THEN [flow EXCEPT ![sid] = FlowStep(@, event, data)] ELSE flow
  /\ UNCHANGED svc

FireInterruptTimer(sid) ==
  /\ Known(sid)
  /\ timers[sid].interrupt > 0
  /\ Commit(interruptTimeout([Store EXCEPT !.timers[sid].interrupt = @ - 1], sid))
  /\ last' = [op |-> "timeout", sid |-> sid, value |-> "void"]
  /\ flow' = OffScript(sid)
  /\ UNCHANGED svc

FireErrorTimer(sid) ==
  /\ Known(sid)
  /\ timers[sid].error # <<>>
  /\ Commit(errorTimeout([Store EXCEPT !.timers[sid].error = Tail(@)], sid))
  /\ last' = [op |-> "timeout", sid |-> sid, value |-> "void"]
  /\ flow' = OffScript(sid)
  /\ UNCHANGED svc

\* processTurn reaches its end on a session it was started for.
CallTurnComplete(sid, turn) ==
  /\ Known(sid)
  /\ Accepting(sid)
  /\ Commit(processTurnEnd(Store, sid, turn))
  /\ last' = [op |-> "processTurn", sid |-> sid, value |-> "void"]
  /\ flow' = OffScript(sid)
  /\ UNCHANGED svc

Events == HandledEvents \cup ForwardedEvents

\* In the service tts_complete comes from processTurn only.
ServiceEvents == Events \ {"tts_complete"}

Next ==
  \/ \E sid \in SessionIds, config \in Configs : CallCreateSession(sid, config)
  \/ \E sid \in SessionIds : CallDeleteSession(sid)
  \/ \E sid \in SessionIds, newState \in ConversationState : CallTransitionTo(sid, newState)
  \/ \E sid \in SessionIds, event \in Events :
       \E data \in EventData(event) : CallHandleEvent(sid, event, data)
  \/ \E sid \in SessionIds : FireInterruptTimer(sid)
  \/ \E sid \in SessionIds : FireErrorTimer(sid)

----------------------------------------------------------------------------

Init ==
  /\ sessions = {}
  /\ obj = <<>>
  /\ emitted = <<>>
  /\ delivered = <<>>
  /\ timers = <<>>
  /\ last = [op |-> "none", sid |-> "", value |-> "void"]
  /\ flow = <<>>
  /\ connections = {}
  /\ audioStreams = {}
  /\ silenceTimers = {}
  /\ sent = [sid \in AllIds |-> <<>>]
  /\ turns = [sid \in AllIds |-> <<>>]
  /\ graceTimers = [sid \in AllIds |-> 0]
  /\ vadEvents = [sid \in AllIds |-> <<>>]
  /\ sockets = [sid \in AllIds |-> 0]
  /\ now = 0

Spec == Init /\ [][Next]_vars

\* The deployed service (index.ts) reaches the state machine only through
\* createSession, deleteSession and handleEvent, and
\* tts_complete reaches it from the end of processTurn; a pending setTimeout
\* callback is eventually run by the event loop.
NextEvents ==
  \/ \E sid \in SessionIds, config \in Configs : CallCreateSession(sid, config)
  \/ \E sid \in SessionIds : CallDeleteSession(sid)
  \/ \E sid \in SessionIds, event \in ServiceEvents :
       \E data \in EventData(event) : CallHandleEvent(sid, event, data)
  \/ \E sid \in SessionIds, turn \in Turns : CallTurnComplete(sid, turn)
  \/ \E sid \in SessionIds : FireInterruptTimer(sid)
  \/ \E sid \in SessionIds : FireErrorTimer(sid)

TimersRun ==
  \A sid \in SessionIds :
    /\ WF_vars(FireInterruptTimer(sid))
    /\ WF_vars(FireErrorTimer(sid))

SpecEvents == Init /\ [][NextEvents]_vars /\ TimersRun

\* The registry with several sessions side by side: sessions are created,
\* start listening and transcribing, and are deleted.
RegistryEvents == {"vad_start", "vad_end"}

NextRegistry ==
  \/ \E sid \in RegistryIds, config \in Configs : CallCreateSession(sid, config)
  \/ \E sid \in RegistryIds : CallDeleteSession(sid)
  \/ \E sid \in RegistryIds, event \in RegistryEvents :
       CallHandleEvent(sid, event, "none")

SpecRegistry == Init /\ [][NextRegistry]_vars

\* A caller that reports errors at any time, once more than the other
\* specifications let it: before a turn, during a turn, and during the
\* recovery from an earlier error.
ReportError(sid, error) ==
  /\ Accepting(sid)
  /\ Known(sid) => obj[sid].metrics.error_count <= MaxErrors
  /\ Commit(handleEvent(Store, sid, "error", error))
  /\ last' = [op |-> "handleEvent", sid |-> sid, value |-> "void"]
  /\ flow' = OffScript(sid)
  /\ UNCHANGED svc

NextRecovery ==
  \/ \E sid \in SessionIds, config \in Configs : CallCreateSession(sid, config)
  \/ \E sid \in SessionIds, event \in ServiceEvents \ {"error"} :
       \E data \in EventData(event) : CallHandleEvent(sid, event, data)
  \/ \E sid \in SessionIds, error \in EventData("error") : ReportError(sid, error)
  \/ \E sid \in SessionIds : FireInterruptTimer(sid)
  \/ \E sid \in SessionIds : FireErrorTimer(sid)

SpecRecovery == Init /\ [][NextRecovery]_vars

----------------------------------------------------------------------------
(* The service: index.ts wires the state machine, the WebRTCHandler and    *)
(* the ConversationOrchestrator together.  Its methods are operators from  *)
(* a world (the state machine's store and the service's own state) to a    *)
(* world.  EventEmitter.emit runs the listeners synchronously, and no      *)
(* handler suspends before its state change, so an emit and the handling   *)
(* of what it emits belong to the same step.                               *)

\* A turn pipeline is started while the session has fewer activations than this.
MaxTurns == 1
\* An inbound audio frame is accepted while the audio buffer holds fewer chunks than this.
MaxFrames == 2
\* Frames arrive while the handler has emitted fewer VAD events than this.
MaxVadEvents == 4
\* In the specification of overlapping turns, a turn pipeline is started
\* while the session has fewer activations than this.
MaxOverlap == 2
\* A socket is accepted while the session has had fewer connections than this.
MaxConnects == 2
\* Time passes while the clock is below this.
MaxClock == 2

\* Inbound binary frames of 16-bit little-endian PCM, as their bytes: one
\* sample of 16384 (speech), and one sample of 0 (silence).
AudioFrames == {<<0, 64>>, <<0, 0>>}
\* A frame of n samples, the first with bytes lo and hi, the others 0.
Pulse(lo, hi, n) == [i \in 1..(2 * n) |-> IF i = 1 THEN lo ELSE IF i = 2 THEN hi ELSE 0]

\* Frames of 625 samples whose energy is the threshold 0.01 (a first sample
\* of 8192: sqrt((8192 / 32768)^2 / 625) = 0.01, in doubles as in the
\* reals) and just above it (a first sample of 8193).
AtThreshold == Pulse(0, 32, 625)
AboveThreshold == Pulse(1, 32, 625)
ThresholdFrames == {AtThreshold, AboveThreshold}

\* Binary frames that are not whole samples: no bytes, and three bytes.
MalformedFrames == {<<>>, <<0, 64, 0>>}

\* What arrives on the socket: the bytes, and what JSON.parse makes of them
\* as text, <<>> when it throws SyntaxError.  A JSON value is given by its
\* kind and, for an object, its type field (<<>> when it has none).
Binary(bytes) == [bytes |-> bytes, json |-> <<>>]
Json(bytes, kind, type) == [bytes |-> bytes, json |-> <<[kind |-> kind, type |-> type]>>]

\* The texts null, 42, {}, {"type":"interrupt"} and {"type":"mute"}.
JsonPayloads ==
  {Json(<<110, 117, 108, 108>>, "null", <<>>),
   Json(<<52, 50>>, "number", <<>>),
   Json(<<123, 125>>, "object", <<>>),
   Json(<<123, 34, 116, 121, 112, 101, 34, 58, 34, 105, 110, 116, 101, 114, 114, 117,
          112, 116, 34, 125>>, "object", <<"interrupt">>),
   Json(<<123, 34, 116, 121, 112, 101, 34, 58, 34, 109, 117, 116, 101, 34, 125>>,
        "object", <<"mute">>)}

Payloads == {Binary(frame) : frame \in AudioFrames \cup MalformedFrames} \cup JsonPayloads
\* What the backend services answer: a result, or a failure (timeout, non-2xx).
Outcomes == {"ok", "failed"}

World ==
  [sm |-> Store,
   connections |-> connections,
   audioStreams |-> audioStreams,
   silenceTimers |-> silenceTimers,
   sent |-> sent,
   turns |-> turns,
   graceTimers |-> graceTimers,
   vadEvents |-> vadEvents,
   sockets |-> sockets]

\* A frame on the socket: its type, and the fields the types carry.
Frame(type) == [type |-> type, state |-> "", audio |-> 0, final |-> FALSE]

\* An entry of connections is an open socket: handleDisconnect removes it on close.
sendMessage(w, sid, message) ==
  IF sid \in w.connections
  THEN [w EXCEPT !.sent[sid] = Append(@, message)]
  ELSE w

sendAudio(w, sid, audioData, is_final) ==
  IF sid \in w.connections
  THEN [w EXCEPT !.sent[sid] =
          Append(@, [Frame("audio") EXCEPT !.audio = audioData, !.final = is_final])]
  ELSE w

\* Variant: the stop signal is not passed on to the client.
webrtcStopTTSUnsent(w, sid) == w

webrtcStopTTS(w, sid) == sendMessage(w, sid, Frame("stop-tts"))

\* Orchestrator.stopTTS emits tts_stopped, which nothing listens to; no
\* request in flight is touched.
orchestratorStopTTS(w, sid, stream_id) == w

\* The listeners index.ts puts on the state machine.
onStateMachine(w, sid, observation) ==
  CASE observation.type = "state_change" ->
         sendMessage(w, sid, [Frame("state_change") EXCEPT !.state = observation.to])
    [] observation.type = "stop_tts" ->
         orchestratorStopTTS(webrtcStopTTS(w, sid), sid, observation.stream)
    [] OTHER -> w

RECURSIVE Deliver(_, _, _)
Deliver(w, sid, observations) ==
  IF observations = <<>>
  THEN w
  ELSE Deliver(onStateMachine(w, sid, Head(observations)), sid, Tail(observations))

\* The world after a state machine method returned store st: the listeners
\* have run on each observation the method emitted.
Listened(w, sid, st) ==
  LET before == IF sid \in DOMAIN w.sm.emitted THEN Len(w.sm.emitted[sid]) ELSE 0
      after == IF sid \in DOMAIN st.emitted THEN st.emitted[sid] ELSE <<>>
  IN Deliver([w EXCEPT !.sm = st], sid, SubSeq(after, before + 1, Len(after)))

stateMachineHandleEvent(w, sid, event, data) ==
  Listened(w, sid, handleEvent(w.sm, sid, event, data))

stateMachineDeleteSession(w, sid) ==
  Listened(w, sid, deleteSession(w.sm, sid).st)

----------------------------------------------------------------------------
(* WebRTCHandler, with the listeners index.ts puts on it *)

\* Variant: the socket is accepted whether the session is found or not.
handleConnectionUnchecked(w, sid) ==
  sendMessage([w EXCEPT !.connections = @ \cup {sid}, !.sockets[sid] = @ + 1],
              sid, Frame("ready"))

\* wss.on('connection'): the socket is closed when the session is not found.
\* connections.set puts the new socket in the place of the one the map held,
\* which stays open with its listeners.
handleConnection(w, sid) ==
  IF getSession(w.sm, sid) = <<>>
  THEN w
  ELSE sendMessage([w EXCEPT !.connections = @ \cup {sid}, !.sockets[sid] = @ + 1],
                   sid, Frame("ready"))

\* One socket of the session has closed; the entries go by session_id.
\* 'disconnected' arms the deletion of the session, 5000 ms later.
handleDisconnect(w, sid) ==
  [w EXCEPT !.connections = @ \ {sid},
            !.audioStreams = @ \ {sid},
            !.silenceTimers = @ \ {sid},
            !.graceTimers[sid] = @ + 1,
            !.sockets[sid] = @ - 1]

closeConnection(w, sid) ==
  IF sid \in w.connections THEN handleDisconnect(w, sid) ELSE w

\* Buffer.readInt16LE at a byte offset.
readInt16LE(buffer, offset) ==
  LET unsigned == buffer[offset + 1] + 256 * buffer[offset + 2]
  IN IF unsigned >= 32768 THEN unsigned - 65536 ELSE unsigned

\* readInt16LE throws RangeError when fewer than two bytes are left: the
\* loop of calculateRMSEnergy reaches that on a buffer of odd length.
energyThrows(buffer) == Len(buffer) % 2 = 1

\* The squares of count samples from byte offset i on, added up.  The loop
\* adds them one after the other; the sum of integers is the same in
\* halves, which keeps the evaluation shallow for long frames.
RECURSIVE sumOfSquaresOf(_, _, _)
sumOfSquaresOf(buffer, i, count) ==
  IF count = 0
  THEN 0
  ELSE IF count = 1
       THEN readInt16LE(buffer, i) * readInt16LE(buffer, i)
       ELSE LET half == count \div 2
            IN sumOfSquaresOf(buffer, i, half)
                 + sumOfSquaresOf(buffer, i + 2 * half, count - half)

\* The sum of the loop of calculateRMSEnergy from offset i on, in units of
\* 1 / 32768^2.
sumOfSquares(buffer, i) == sumOfSquaresOf(buffer, i, (Len(buffer) - i) \div 2)

\* Variant: a frame whose energy is the threshold counts as speech.
isSpeakingFromThreshold(frame) ==
  LET samples == Len(frame) \div 2
  IN /\ samples > 0
     /\ sumOfSquares(frame, 0) >= 107374 * samples + (1824 * samples) \div 10000

\* energy > vadThreshold, with vadThreshold = 0.01: sqrt(sum / samples) is
\* NaN for an empty buffer, and NaN > 0.01 is false; otherwise the test is
\* sum / samples > 0.0001, which in units of 1 / 32768^2 is 107374.1824,
\* and an integer sum exceeds 107374.1824 * samples exactly when it
\* exceeds the integer part of that product.
isSpeaking(frame) ==
  LET samples == Len(frame) \div 2
  IN /\ samples > 0
     /\ sumOfSquares(frame, 0) > 107374 * samples + (1824 * samples) \div 10000

\* An exception in calculateRMSEnergy leaves performVAD before it has
\* touched anything.
performVAD(w, sid, frame) ==
  IF energyThrows(frame)
  THEN w
  ELSE
  IF isSpeaking(frame)
  THEN
    LET cleared == [w EXCEPT !.silenceTimers = @ \ {sid}]
    IN IF sid \notin cleared.audioStreams
       THEN stateMachineHandleEvent([cleared EXCEPT !.audioStreams = @ \cup {sid},
                                                    !.vadEvents[sid] = Append(@, "vad_start")],
                                    sid, "vad_start", "none")
       ELSE cleared
  ELSE
    IF sid \in w.audioStreams /\ sid \notin w.silenceTimers
    THEN [w EXCEPT !.silenceTimers = @ \cup {sid}]
    ELSE w

handleAudioData(w, sid, frame) ==
  performVAD(stateMachineHandleEvent(w, sid, "user_audio", "chunk"), sid, frame)

\* const { type } = message throws TypeError when message is null.
signalingThrows(message) == message.kind = "null"

\* The messages offer, ice-candidate, start-recording and stop-recording
\* reach no state of the service: the answer to an offer is a mock, and
\* nothing listens to the events the other three emit.
handleSignalingMessage(w, sid, message) ==
  CASE message.type = <<"offer">> -> sendMessage(w, sid, Frame("answer"))
    [] message.type = <<"interrupt">> ->
         stateMachineHandleEvent(w, sid, "user_interrupt", "none")
    [] OTHER -> w

\* ws.on('message'): the catch block takes whatever the try block throws,
\* the SyntaxError of JSON.parse and the TypeError of the destructuring.
handleMessage(w, sid, data) ==
  IF data.json = <<>>
  THEN handleAudioData(w, sid, data.bytes)
  ELSE IF signalingThrows(data.json[1])
       THEN handleAudioData(w, sid, data.bytes)
       ELSE handleSignalingMessage(w, sid, data.json[1])

\* The RangeError of an odd-length buffer is thrown inside the catch block
\* and leaves the listener.
handleMessageThrows(data) ==
  /\ data.json = <<>> \/ signalingThrows(data.json[1])
  /\ energyThrows(data.bytes)

\* processTurn up to its first await: transcribeAudio has posted the audio.
processTurnStart(w, sid) ==
  [w EXCEPT !.turns[sid] = Append(@, [pc |-> "asr", text |-> <<>>, response |-> <<>>, stream |-> 0])]

\* The silence timer's callback and the vad_end listener of index.ts.
silenceTimeout(w, sid) ==
  LET ended == [w EXCEPT !.audioStreams = @ \ {sid}, !.silenceTimers = @ \ {sid},
                         !.vadEvents[sid] = Append(@, "vad_end")]
  IN IF getSession(ended.sm, sid) = <<>>
     THEN ended
     ELSE
       LET handled == stateMachineHandleEvent(ended, sid, "vad_end", "none")
       IN IF Len(handled.sm.obj[sid].audio_buffer) > 0
          THEN processTurnStart(handled, sid)
          ELSE handled

----------------------------------------------------------------------------
(* ConversationOrchestrator.processTurn, from one await to the next, with  *)
(* the listeners index.ts puts on the orchestrator.  Turn k of a session   *)
(* is its k-th activation; the stream id synthesizeSpeech draws (a uuid)   *)
(* is k as well.                                                           *)

\* A service call failed: the method's catch emits error and rethrows, and
\* processTurn's catch emits error again.
failTurn(w, sid, k, error) ==
  LET first == stateMachineHandleEvent(w, sid, "error", error)
      second == stateMachineHandleEvent(first, sid, "error", "Turn processing failed")
  IN [second EXCEPT !.turns[sid][k].pc = "done"]

\* transcribeAudio after its await, then processTurn up to getLLMResponse's await.
asrResponds(w, sid, k, outcome, text) ==
  IF outcome = "failed"
  THEN failTurn(w, sid, k, "Transcription failed")
  ELSE
    LET transcribed ==
          stateMachineHandleEvent(w, sid, "transcription_final", [text |-> text])
    IN IF Trim(text) = <<>>
       THEN [transcribed EXCEPT !.turns[sid][k].pc = "done"]
       ELSE sendMessage([transcribed EXCEPT !.turns[sid][k].pc = "llm",
                                            !.turns[sid][k].text = text],
                        sid, Frame("llm_thinking"))

\* getLLMResponse after its await, then synthesizeSpeech up to its await.
llmResponds(w, sid, k, outcome, response) ==
  IF outcome = "failed"
  THEN failTurn(w, sid, k, "LLM processing failed")
  ELSE
    LET answered == stateMachineHandleEvent(w, sid, "llm_response_complete", response)
        stream_id == k
        started ==
          stateMachineHandleEvent(answered, sid, "tts_start", [stream_id |-> stream_id])
    IN [started EXCEPT !.turns[sid][k].pc = "tts",
                       !.turns[sid][k].response = <<response>>,
                       !.turns[sid][k].stream = stream_id]

\* synthesizeSpeech after its await, then the rest of processTurn.  The
\* audio synthesized for a stream is named by the stream's id.
ttsResponds(w, sid, k, outcome) ==
  IF outcome = "failed"
  THEN failTurn(w, sid, k, "Speech synthesis failed")
  ELSE
    LET audioBuffer == w.turns[sid][k].stream
        chunked == sendAudio(w, sid, audioBuffer, FALSE)
        turn == [user_text |-> w.turns[sid][k].text,
                 assistant_text |-> w.turns[sid][k].response[1].text]
        updated == [chunked EXCEPT !.sm.obj[sid].current_turn = <<turn>>,
                                   !.turns[sid][k].pc = "done"]
    IN IF getSession(updated.sm, sid) = <<>>
       THEN updated
       ELSE stateMachineHandleEvent(sendAudio(updated, sid, audioBuffer, TRUE),
                                    sid, "tts_complete", "none")

----------------------------------------------------------------------------
(* The setInterval callback of index.ts, with the listeners *)

\* The listeners run on what the state machine emitted for each of ids
\* since the store was before.
RECURSIVE DeliverAll(_, _, _)
DeliverAll(w, before, ids) ==
  IF ids = {}
  THEN w
  ELSE
    LET sid == CHOOSE id \in ids : TRUE
        observations == w.sm.emitted[sid]
    IN DeliverAll(Deliver(w, sid, SubSeq(observations, Len(before.emitted[sid]) + 1,
                                         Len(observations))),
                  before, ids \ {sid})

\* Returns the world and the count the callback logs.
cleanupInterval(w, maxAgeMs) ==
  LET r == cleanupStaleSessions(w.sm, maxAgeMs)
  IN [w |-> DeliverAll([w EXCEPT !.sm = r.st], w.sm, w.sm.sessions),
      cleaned |-> r.cleaned]

----------------------------------------------------------------------------
(* Actions of the service *)

CommitWorld(w) ==
  /\ Commit(w.sm)
  /\ connections' = w.connections
  /\ audioStreams' = w.audioStreams
  /\ silenceTimers' = w.silenceTimers
  /\ sent' = w.sent
  /\ turns' = w.turns
  /\ graceTimers' = w.graceTimers
  /\ vadEvents' = w.vadEvents
  /\ sockets' = w.sockets

\* The service discards what the state machine's methods return.
Served(sid) ==
  /\ last' = [op |-> "service", sid |-> sid, value |-> "void"]
  /\ flow' = OffScript(sid)

Connects(sid) ==
  Cardinality({i \in DOMAIN sent[sid] : sent[sid][i].type = "ready"})

\* What a route answers: the status of the response, or for a socket the
\* close code or the first frame.
Responded(sid, route, status) ==
  /\ last' = [op |-> route, sid |-> sid, value |-> status]
  /\ flow' = OffScript(sid)

\* The routes answer 404 when getSession finds nothing.
Found(sid) == IF getSession(Store, sid) = <<>> THEN "404" ELSE "200"

\* GET /sessions/:session_id
GetSessionRoute(sid) ==
  /\ Responded(sid, "GET /sessions/:session_id", Found(sid))
  /\ UNCHANGED <<sessions, obj, emitted, delivered, timers, svc, now>>

\* DELETE /sessions/:session_id
DeleteSessionRoute(sid) ==
  /\ CommitWorld(stateMachineDeleteSession(closeConnection(World, sid), sid))
  /\ Responded(sid, "DELETE /sessions/:session_id",
               IF deleteSession(Store, sid).ok THEN "200" ELSE "404")

\* POST /sessions/:session_id/interrupt
InterruptRoute(sid) ==
  /\ IF getSession(Store, sid) = <<>>
     THEN UNCHANGED <<sessions, obj, emitted, delivered, timers, svc, now>>
     ELSE CommitWorld(stateMachineHandleEvent(World, sid, "user_interrupt", "none"))
  /\ Responded(sid, "POST /sessions/:session_id/interrupt", Found(sid))

\* GET /sessions/:session_id/history
HistoryRoute(sid) ==
  /\ Responded(sid, "GET /sessions/:session_id/history", Found(sid))
  /\ UNCHANGED <<sessions, obj, emitted, delivered, timers, svc, now>>

\* A client opens a socket on /ws/{session_id}; a session has one socket at
\* a time.
WsConnection(sid) ==
  /\ sid \in connections => getSession(Store, sid) = <<>>
  /\ Connects(sid) < MaxConnects
  /\ CommitWorld(handleConnection(World, sid))
  /\ Responded(sid, "connection",
               IF getSession(Store, sid) = <<>> THEN "1008" ELSE "ready")

\* A client opens a socket while an earlier socket of the session is open.
WsConnectionAgain(sid) ==
  /\ sockets[sid] > 0
  /\ getSession(Store, sid) # <<>>
  /\ Connects(sid) < MaxConnects
  /\ CommitWorld(handleConnection(World, sid))
  /\ Responded(sid, "connection", "ready")

\* A socket of the session closes.
WsClose(sid) ==
  /\ sockets[sid] > 0
  /\ CommitWorld(handleDisconnect(World, sid))
  /\ Served(sid)

\* A binary frame arrives on the socket.
WsAudio(sid, frame) ==
  /\ sockets[sid] > 0
  /\ Len(obj[sid].audio_buffer) < MaxFrames
  /\ Len(vadEvents[sid]) < MaxVadEvents
  /\ CommitWorld(handleAudioData(World, sid, frame))
  /\ Served(sid)

\* Any payload arrives on the socket.  What becomes of an exception that
\* leaves the listener is up to the ws library and the process.
WsMessage(sid, data) ==
  /\ sockets[sid] > 0
  /\ Len(obj[sid].audio_buffer) < MaxFrames
  /\ Len(vadEvents[sid]) < MaxVadEvents
  /\ CommitWorld(handleMessage(World, sid, data))
  /\ last' = [op |-> "message", sid |-> sid,
              value |-> IF handleMessageThrows(data) THEN "RangeError" ELSE "void"]
  /\ flow' = OffScript(sid)

\* The signaling message {type: 'interrupt'} arrives on the socket.
WsInterrupt(sid) ==
  /\ sid \in connections
  /\ CommitWorld(stateMachineHandleEvent(World, sid, "user_interrupt", "none"))
  /\ Served(sid)

\* The silence timer of performVAD fires, silenceThreshold after it was set;
\* it is left pending when it would start a turn beyond the bound.
SilenceTimerFiresWithin(sid, bound) ==
  /\ sid \in silenceTimers
  /\ LET w == silenceTimeout(World, sid)
     IN /\ Len(w.turns[sid]) <= bound
        /\ CommitWorld(w)
  /\ Served(sid)

SilenceTimerFires(sid) == SilenceTimerFiresWithin(sid, MaxTurns)

AsrResponds(sid, k, outcome, text) ==
  /\ k \in DOMAIN turns[sid]
  /\ turns[sid][k].pc = "asr"
  /\ CommitWorld(asrResponds(World, sid, k, outcome, text))
  /\ Served(sid)

LlmResponds(sid, k, outcome, response) ==
  /\ k \in DOMAIN turns[sid]
  /\ turns[sid][k].pc = "llm"
  /\ CommitWorld(llmResponds(World, sid, k, outcome, response))
  /\ Served(sid)

TtsResponds(sid, k, outcome) ==
  /\ k \in DOMAIN turns[sid]
  /\ turns[sid][k].pc = "tts"
  /\ CommitWorld(ttsResponds(World, sid, k, outcome))
  /\ Served(sid)

\* The callbacks handleUserInterrupt and handleError armed run in the service.
InterruptTimerFires(sid) ==
  /\ Known(sid)
  /\ timers[sid].interrupt > 0
  /\ CommitWorld(Listened(World, sid,
       interruptTimeout([Store EXCEPT !.timers[sid].interrupt = @ - 1], sid)))
  /\ Served(sid)

ErrorTimerFires(sid) ==
  /\ Known(sid)
  /\ timers[sid].error # <<>>
  /\ CommitWorld(Listened(World, sid,
       errorTimeout([Store EXCEPT !.timers[sid].error = Tail(@)], sid)))
  /\ Served(sid)

\* The callback 'disconnected' armed fires, 5000 ms after the socket closed.
GraceTimerFires(sid) ==
  /\ graceTimers[sid] > 0
  /\ CommitWorld(stateMachineDeleteSession(
       [World EXCEPT !.graceTimers[sid] = @ - 1], sid))
  /\ Served(sid)

\* The setInterval callback, with the age it passes to cleanupStaleSessions.
CleanupIntervalFires(maxAgeMs) ==
  /\ LET r == cleanupInterval(World, maxAgeMs)
     IN /\ CommitWorld(r.w)
        /\ last' = [op |-> "cleanupStaleSessions", sid |-> "", value |-> ToString(r.cleaned)]
  /\ flow' = [sid \in DOMAIN flow |-> IF sid \in sessions' THEN flow[sid] ELSE -1]

\* Time passes.
Tick ==
  /\ now < MaxClock
  /\ now' = now + 1
  /\ UNCHANGED <<sessions, obj, emitted, delivered, timers, last, flow, svc>>

NextService ==
  \/ \E sid \in SessionIds, config \in Configs : CallCreateSession(sid, config)
  \/ \E sid \in SessionIds : GetSessionRoute(sid)
  \/ \E sid \in SessionIds : DeleteSessionRoute(sid)
  \/ \E sid \in SessionIds : InterruptRoute(sid)
  \/ \E sid \in SessionIds : HistoryRoute(sid)
  \/ \E sid \in SessionIds : WsConnection(sid)
  \/ \E sid \in SessionIds : WsClose(sid)
  \/ \E sid \in SessionIds, frame \in AudioFrames : WsAudio(sid, frame)
  \/ \E sid \in SessionIds : WsInterrupt(sid)
  \/ \E sid \in SessionIds : SilenceTimerFires(sid)
  \/ \E sid \in SessionIds, k \in 1..MaxTurns, outcome \in Outcomes, text \in Texts :
       AsrResponds(sid, k, outcome, text)
  \/ \E sid \in SessionIds, k \in 1..MaxTurns, outcome \in Outcomes, response \in Responses :
       LlmResponds(sid, k, outcome, response)
  \/ \E sid \in SessionIds, k \in 1..MaxTurns, outcome \in Outcomes :
       TtsResponds(sid, k, outcome)
  \/ \E sid \in SessionIds : InterruptTimerFires(sid)
  \/ \E sid \in SessionIds : ErrorTimerFires(sid)
  \/ \E sid \in SessionIds : GraceTimerFires(sid)

\* Every backend call returns or times out, and the event loop runs every
\* pending timer callback.
ServiceProgress ==
  \A sid \in SessionIds :
    /\ WF_vars(InterruptTimerFires(sid))
    /\ WF_vars(ErrorTimerFires(sid))

SpecService == Init /\ [][NextService]_vars /\ ServiceProgress

\* The turn pipeline on one socket that stays open: frames arrive, the
\* silence timer starts a turn, the backends answer or fail, and the user
\* interrupts.
NextPipeline ==
  \/ \E sid \in SessionIds, config \in Configs : CallCreateSession(sid, config)
  \/ \E sid \in SessionIds : WsConnection(sid)
  \/ \E sid \in SessionIds, frame \in AudioFrames : WsAudio(sid, frame)
  \/ \E sid \in SessionIds : WsInterrupt(sid)
  \/ \E sid \in SessionIds : SilenceTimerFires(sid)
  \/ \E sid \in SessionIds, k \in 1..MaxTurns, outcome \in Outcomes, text \in Texts :
       AsrResponds(sid, k, outcome, text)
  \/ \E sid \in SessionIds, k \in 1..MaxTurns, outcome \in Outcomes, response \in Responses :
       LlmResponds(sid, k, outcome, response)
  \/ \E sid \in SessionIds, k \in 1..MaxTurns, outcome \in Outcomes :
       TtsResponds(sid, k, outcome)
  \/ \E sid \in SessionIds : InterruptTimerFires(sid)
  \/ \E sid \in SessionIds : ErrorTimerFires(sid)

SpecPipeline == Init /\ [][NextPipeline]_vars /\ ServiceProgress

\* Every request to a backend is answered or fails: axios resolves or
\* rejects each post, after its timeout at the latest.
BackendsAnswer ==
  \A sid \in SessionIds, k \in 1..MaxTurns :
    /\ WF_vars(\E outcome \in Outcomes, text \in Texts : AsrResponds(sid, k, outcome, text))
    /\ WF_vars(\E outcome \in Outcomes, response \in Responses :
                 LlmResponds(sid, k, outcome, response))
    /\ WF_vars(\E outcome \in Outcomes : TtsResponds(sid, k, outcome))

\* The pipeline with backends that answer and timers that fire.
SpecLive == Init /\ [][NextPipeline]_vars /\ ServiceProgress /\ BackendsAnswer

\* The same with turns that overlap: a new turn starts while the backends
\* of an earlier one have not answered yet.
NextOverlap ==
  \/ \E sid \in SessionIds, config \in Configs : CallCreateSession(sid, config)
  \/ \E sid \in SessionIds : WsConnection(sid)
  \/ \E sid \in SessionIds, frame \in AudioFrames : WsAudio(sid, frame)
  \/ \E sid \in SessionIds : WsInterrupt(sid)
  \/ \E sid \in SessionIds : SilenceTimerFiresWithin(sid, MaxOverlap)
  \/ \E sid \in SessionIds, k \in 1..MaxOverlap, outcome \in Outcomes, text \in Texts :
       AsrResponds(sid, k, outcome, text)
  \/ \E sid \in SessionIds, k \in 1..MaxOverlap, outcome \in Outcomes, response \in Responses :
       LlmResponds(sid, k, outcome, response)
  \/ \E sid \in SessionIds, k \in 1..MaxOverlap, outcome \in Outcomes :
       TtsResponds(sid, k, outcome)
  \/ \E sid \in SessionIds : InterruptTimerFires(sid)
  \/ \E sid \in SessionIds : ErrorTimerFires(sid)

SpecOverlap == Init /\ [][NextOverlap]_vars /\ ServiceProgress

\* The same pipeline with any payload on the socket, well-formed or not.
NextFraming ==
  \/ \E sid \in SessionIds, config \in Configs : CallCreateSession(sid, config)
  \/ \E sid \in SessionIds : WsConnection(sid)
  \/ \E sid \in SessionIds, data \in Payloads : WsMessage(sid, data)
  \/ \E sid \in SessionIds : SilenceTimerFires(sid)
  \/ \E sid \in SessionIds, k \in 1..MaxTurns, outcome \in Outcomes, text \in Texts :
       AsrResponds(sid, k, outcome, text)
  \/ \E sid \in SessionIds, k \in 1..MaxTurns, outcome \in Outcomes, response \in Responses :
       LlmResponds(sid, k, outcome, response)
  \/ \E sid \in SessionIds, k \in 1..MaxTurns, outcome \in Outcomes :
       TtsResponds(sid, k, outcome)
  \/ \E sid \in SessionIds : InterruptTimerFires(sid)
  \/ \E sid \in SessionIds : ErrorTimerFires(sid)

SpecFraming == Init /\ [][NextFraming]_vars /\ ServiceProgress

\* The VAD of the WebRTCHandler on sockets that open and close, with frames
\* whose energy is at the threshold and just above it; the backends do not
\* answer within the behaviour.
NextVad ==
  \/ \E sid \in SessionIds, config \in Configs : CallCreateSession(sid, config)
  \/ \E sid \in SessionIds : WsConnection(sid)
  \/ \E sid \in SessionIds : WsClose(sid)
  \/ \E sid \in SessionIds, frame \in ThresholdFrames : WsAudio(sid, frame)
  \/ \E sid \in SessionIds : SilenceTimerFires(sid)
  \/ \E sid \in SessionIds : GraceTimerFires(sid)

SpecVad == Init /\ [][NextVad]_vars

\* Clients that connect again before their earlier socket has closed.
NextSockets ==
  \/ \E sid \in SessionIds, config \in Configs : CallCreateSession(sid, config)
  \/ \E sid \in SessionIds : WsConnection(sid)
  \/ \E sid \in SessionIds : WsConnectionAgain(sid)
  \/ \E sid \in SessionIds : WsClose(sid)
  \/ \E sid \in SessionIds, frame \in AudioFrames : WsAudio(sid, frame)
  \/ \E sid \in SessionIds : SilenceTimerFires(sid)
  \/ \E sid \in SessionIds : GraceTimerFires(sid)

SpecSockets == Init /\ [][NextSockets]_vars

\* The control plane: sessions are created, looked up, interrupted and
\* deleted through the routes, and clients connect and disconnect.
ControlIds == {"s1", "s2"}

NextControl ==
  \/ \E sid \in ControlIds, config \in Configs : CallCreateSession(sid, config)
  \/ \E sid \in ControlIds : GetSessionRoute(sid)
  \/ \E sid \in ControlIds : DeleteSessionRoute(sid)
  \/ \E sid \in ControlIds : InterruptRoute(sid)
  \/ \E sid \in ControlIds : HistoryRoute(sid)
  \/ \E sid \in ControlIds : WsConnection(sid)
  \/ \E sid \in ControlIds : WsClose(sid)
  \/ \E sid \in ControlIds : GraceTimerFires(sid)

SpecControl == Init /\ [][NextControl]_vars

\* The cleanup task: sessions are created, clients connect and send control
\* requests, time passes, and the interval callback removes the sessions
\* that have been idle for too long.
MaxAges == {0, 1}

NextCleanup ==
  \/ \E sid \in ControlIds, config \in Configs : CallCreateSession(sid, config)
  \/ \E sid \in ControlIds : WsConnection(sid)
  \/ \E sid \in ControlIds : InterruptRoute(sid)
  \/ \E maxAgeMs \in MaxAges : CleanupIntervalFires(maxAgeMs)
  \/ Tick

SpecCleanup == Init /\ [][NextCleanup]_vars

----------------------------------------------------------------------------
(* Properties *)

\* The legal transition table as the specification lists it.
LegalTable ==
  ({IDLE} \X {LISTENING, ENDED})
    \cup ({LISTENING} \X {TRANSCRIBING, IDLE, INTERRUPTED, ENDED})
    \cup ({TRANSCRIBING} \X {INTERPRETING, LISTENING, INTERRUPTED, ERROR, ENDED})
    \cup ({INTERPRETING} \X {ANSWERING, INTERRUPTED, ERROR, ENDED})
    \cup ({ANSWERING} \X {SPEAKING, INTERRUPTED, ERROR, ENDED})
    \cup ({SPEAKING} \X {LISTENING, IDLE, INTERRUPTED, ERROR, ENDED})
    \cup ({INTERRUPTED} \X {LISTENING, IDLE, ENDED})
    \cup ({ERROR} \X {IDLE, LISTENING, ENDED})

NonTerminal == ConversationState \ {ENDED}

History(sid) == obj[sid].state_history

LastRecord(sid) == History(sid)[Len(History(sid))]

C3_HistoryIsChain ==
  \A sid \in DOMAIN obj :
    LET h == History(sid)
    IN /\ \A i \in 1..Len(h) :
            h[i].from = (IF i = 1 THEN IDLE ELSE h[i - 1].to)
       /\ obj[sid].state = (IF h = <<>> THEN IDLE ELSE h[Len(h)].to)

C3_Witness ==
  \E sid \in DOMAIN obj :
    /\ Len(History(sid)) >= 4
    /\ last.op = "timeout"
    /\ LastRecord(sid).from = ERROR

\* C4: a user_interrupt event moves the session to INTERRUPTED exactly when
\* it is ANSWERING or SPEAKING; that transition adds one to interruption_count
\* and records the state it interrupted as metadata.  In any other state,
\* INTERRUPTED included, the event leaves the state, the history and the count
\* alone, so a second interrupt during the dwell adds no transition.
C4_InterruptOnlyWhileAnsweringOrSpeaking ==
  [][\A sid \in sessions :
       (last'.op = "handleEvent" /\ CallHandleEvent(sid, "user_interrupt", "none"))
         => LET before == obj[sid]
                after == obj'[sid]
            IN IF before.state \in {ANSWERING, SPEAKING}
               THEN /\ after.state = INTERRUPTED
                    /\ after.metrics.interruption_count
                         = before.metrics.interruption_count + 1
                    /\ after.state_history
                         = Append(before.state_history,
                                  [from |-> before.state, to |-> INTERRUPTED,
                                   event |-> "state_change",
                                   metadata |-> [key |-> "interrupted_state",
                                                 str |-> before.state,
                                                 num |-> 0, text |-> <<>>]])
               ELSE /\ after.state = before.state
                    /\ after.state_history = before.state_history
                    /\ after.metrics.interruption_count
                         = before.metrics.interruption_count]_vars

C4_Witness ==
  \E sid \in sessions :
    /\ last.op = "handleEvent"
    /\ obj[sid].state = INTERRUPTED
    /\ LastRecord(sid).metadata.key = "interrupted_state"
    /\ LastRecord(sid).metadata.str = ANSWERING
    /\ obj[sid].metrics.interruption_count = 1

Ended(sid) == obj[sid].state = ENDED

LastTransitionIs(sid, from, to) ==
  /\ History(sid) # <<>>
  /\ LastRecord(sid).from = from
  /\ LastRecord(sid).to = to

C6_ErrorEventEntersError ==
  [][\A sid \in sessions, e \in Errors :
       (/\ last'.op = "handleEvent"
        /\ obj[sid].state \in NonTerminal
        /\ CallHandleEvent(sid, "error", e))
         => /\ obj'[sid].state = ERROR
            /\ obj'[sid].metrics.error_count = obj[sid].metrics.error_count + 1]_vars

\* C7: a session in ERROR eventually makes the transition ERROR -> IDLE,
\* unless it is ended first; an error event never ends or unregisters the
\* session; and the recovery callback does nothing when the state is no
\* longer ERROR.
C7_ErrorRecoversToIdle ==
  /\ \A sid \in SessionIds :
       (Known(sid) /\ obj[sid].state = ERROR)
         ~> (Known(sid) /\ (Ended(sid) \/ LastTransitionIs(sid, ERROR, IDLE)))
  /\ [][\A sid \in sessions, e \in Errors :
          (last'.op = "handleEvent" /\ CallHandleEvent(sid, "error", e))
            => (sessions' = sessions /\ obj'[sid].state # ENDED)]_vars
  /\ [][\A sid \in DOMAIN obj :
          (last'.op = "timeout" /\ obj[sid].state # ERROR /\ FireErrorTimer(sid))
            => (obj' = obj /\ emitted' = emitted /\ sessions' = sessions)]_vars

C7_Witness ==
  \E sid \in sessions :
    /\ last.op = "timeout"
    /\ obj[sid].state = IDLE
    /\ LastTransitionIs(sid, ERROR, IDLE)
    /\ obj[sid].metrics.error_count = 1

\* C8: transcription_final in TRANSCRIBING moves the session to INTERPRETING
\* only when the text is non-empty after trimming; when it is empty or
\* whitespace the session goes back to LISTENING with its buffers cleared and
\* total_turns unchanged.
C8_EmptyTranscriptReturnsToListening ==
  [][\A sid \in sessions, d \in [text : Texts] :
       (/\ last'.op = "handleEvent"
        /\ obj[sid].state = TRANSCRIBING
        /\ CallHandleEvent(sid, "transcription_final", d))
         => IF Trim(d.text) # <<>>
            THEN obj'[sid].state = INTERPRETING
            ELSE /\ obj'[sid].state = LISTENING
                 /\ obj'[sid].audio_buffer = <<>>
                 /\ obj'[sid].transcript_buffer = <<>>
                 /\ obj'[sid].metrics.total_turns = obj[sid].metrics.total_turns]_vars

\* C9: vad_end in LISTENING moves the session to TRANSCRIBING when the audio
\* buffer is non-empty and to IDLE when it is empty; in any other state it
\* causes no transition.
C9_VadEndWithEmptyBufferGoesIdle ==
  [][\A sid \in sessions :
       (last'.op = "handleEvent" /\ CallHandleEvent(sid, "vad_end", "none"))
         => IF obj[sid].state = LISTENING
            THEN obj'[sid].state
                   = (IF obj[sid].audio_buffer # <<>> THEN TRANSCRIBING ELSE IDLE)
            ELSE obj'[sid].state = obj[sid].state]_vars

\* C10: on a fresh session the events vad_start, transcription_final (with
\* text), llm_response_complete, tts_start, tts_complete, handled in this
\* order, leave it in LISTENING, INTERPRETING, ANSWERING, SPEAKING and IDLE.
C10_ScriptedTurnStates ==
  \A sid \in sessions :
    flow[sid] \in 1..5
      => obj[sid].state
           = <<LISTENING, INTERPRETING, ANSWERING, SPEAKING, IDLE>>[flow[sid]]

\* The SPEAKING -> IDLE records of a session's history.
TurnsCompleted(sid) ==
  {i \in DOMAIN History(sid) :
     History(sid)[i].from = SPEAKING /\ History(sid)[i].to = IDLE}

Entries(sid, s) == {i \in DOMAIN History(sid) : History(sid)[i].to = s}

\* C12: in every state a session's interruption_count is the number of
\* records in its state_history that enter INTERRUPTED.
C12_InterruptionCountCountsInterrupts ==
  \A sid \in DOMAIN obj :
    obj[sid].metrics.interruption_count = Cardinality(Entries(sid, INTERRUPTED))

C12_Witness ==
  \E sid \in sessions :
    /\ last.op = "timeout"
    /\ LastTransitionIs(sid, INTERRUPTED, LISTENING)
    /\ History(sid)[Len(History(sid)) - 1].from = SPEAKING
    /\ obj[sid].metrics.interruption_count = 1

\* C13: in every state a registered session's tts_stream_id is set exactly
\* when the session is ANSWERING or SPEAKING.
C13_StreamHandleOnlyWhileAnsweringOrSpeaking ==
  \A sid \in sessions :
    obj[sid].tts_stream_id # <<>> <=> obj[sid].state \in {ANSWERING, SPEAKING}

\* C14: in every state a registered session's audio buffer is empty when
\* the session is IDLE, INTERPRETING, ANSWERING or SPEAKING.
C14_AudioBufferEmptyOutsideCapture ==
  \A sid \in sessions :
    obj[sid].state \in {IDLE, INTERPRETING, ANSWERING, SPEAKING}
      => obj[sid].audio_buffer = <<>>

\* The state machine emitted stop_tts for the stream.
StopEmitted(sid, stream_id) ==
  \E i \in DOMAIN emitted[sid] :
    /\ emitted[sid][i].type = "stop_tts"
    /\ emitted[sid][i].stream = <<stream_id>>

\* C15: once stop_tts has been emitted for the stream of a synthesis in
\* flight, the answer of the synthesis service has no effect: no audio frame
\* goes to the client, and no tts_complete acts on the session.
C15_StoppedSynthesisEmitsNothing ==
  [][\A sid \in sessions, k \in 1..MaxTurns :
       (/\ k \in DOMAIN turns[sid]
        /\ turns[sid][k].pc = "tts"
        /\ StopEmitted(sid, turns[sid][k].stream)
        /\ TtsResponds(sid, k, "ok"))
         => /\ sent'[sid] = sent[sid]
            /\ obj'[sid].state_history = obj[sid].state_history
            /\ obj'[sid].conversation_history = obj[sid].conversation_history]_vars

\* The state a session is in while the call at pc is under way.
StateDuring(pc) ==
  CASE pc = "asr" -> TRANSCRIBING
    [] pc = "llm" -> INTERPRETING
    [] pc = "tts" -> SPEAKING

\* A service call of turn k fails.
CallFails(sid, k) ==
  \/ \E text \in Texts : AsrResponds(sid, k, "failed", text)
  \/ \E response \in Responses : LlmResponds(sid, k, "failed", response)
  \/ TtsResponds(sid, k, "failed")

\* C16: when a service call of a turn fails while the session is in the
\* state of that call, the session goes to ERROR, error_count grows by
\* exactly one, a connected client is sent the state_change to ERROR, and no
\* turn is appended to the history.
C16_ServiceFailureCountsOnce ==
  [][\A sid \in sessions, k \in 1..MaxTurns :
       (/\ k \in DOMAIN turns[sid]
        /\ turns[sid][k].pc \in {"asr", "llm", "tts"}
        /\ obj[sid].state = StateDuring(turns[sid][k].pc)
        /\ CallFails(sid, k))
         => /\ obj'[sid].state = ERROR
            /\ obj'[sid].metrics.error_count = obj[sid].metrics.error_count + 1
            /\ sid \in connections
                 => sent'[sid] = Append(sent[sid],
                                        [Frame("state_change") EXCEPT !.state = ERROR])
            /\ obj'[sid].conversation_history = obj[sid].conversation_history]_vars

\* The frames of a type, in the order they were sent.
FramesOf(sid, type) == SelectSeq(sent[sid], LAMBDA f : f.type = type)

\* The session has had one turn, which ran from speech to the end of the
\* answer with no interrupt and no error, on a socket that stayed open.
CleanTurn(sid) ==
  /\ sid \in connections
  /\ Connects(sid) = 1
  /\ graceTimers[sid] = 0
  /\ obj[sid].metrics.error_count = 0
  /\ Len(History(sid)) = 6
  /\ [i \in 1..6 |-> History(sid)[i].to]
       = <<LISTENING, TRANSCRIBING, INTERPRETING, ANSWERING, SPEAKING, IDLE>>

\* C17: after a clean turn the client has received ready, then the six
\* state_change frames in order, one llm_thinking frame after the
\* state_change to INTERPRETING, and exactly one audio frame, which carries
\* the synthesized audio; and nothing else.
C17_CleanTurnFrames ==
  \A sid \in sessions :
    CleanTurn(sid)
      => /\ sent[sid][1].type = "ready"
         /\ [i \in 1..Len(FramesOf(sid, "state_change")) |->
               FramesOf(sid, "state_change")[i].state]
              = <<LISTENING, TRANSCRIBING, INTERPRETING, ANSWERING, SPEAKING, IDLE>>
         /\ Len(FramesOf(sid, "llm_thinking")) = 1
         /\ \E i, j \in DOMAIN sent[sid] :
              /\ i < j
              /\ sent[sid][i].type = "state_change"
              /\ sent[sid][i].state = INTERPRETING
              /\ sent[sid][j].type = "llm_thinking"
         /\ Len(FramesOf(sid, "audio")) = 1
         /\ FramesOf(sid, "audio")[1].audio = turns[sid][1].stream
         /\ Len(sent[sid]) = 9

\* C18: a session whose client has reconnected is not deleted when the
\* grace window of the earlier disconnect elapses; the deletion callback
\* deletes only a session that is still disconnected; and a connection to a
\* registered session associates the new socket with it.
C18_ReconnectedSessionSurvivesGrace ==
  [][\A sid \in sessions :
       /\ (sid \in connections /\ GraceTimerFires(sid)) => sid \in sessions'
       /\ WsConnection(sid) => (sid \in connections' /\ obj'[sid] = obj[sid])]_vars

\* The store after the step.
StoreAfter ==
  [sessions |-> sessions', obj |-> obj', emitted |-> emitted', delivered |-> delivered',
   timers |-> timers', now |-> now']

\* C19: createSession registers a session under an id not used before;
\* getSession returns it; it is IDLE, holds the config passed in, has empty
\* conversation history, audio buffer, transcript buffer and state history,
\* and its three counters are 0.  getSession returns nothing for an id that
\* was never created.
C19_CreatedSessionIsFreshAndIdle ==
  /\ [][\A sid \in SessionIds, config \in Configs :
          (last'.op = "createSession" /\ CallCreateSession(sid, config))
            => /\ sid \notin DOMAIN obj
               /\ getSession(Store, sid) = <<>>
               /\ getSession(StoreAfter, sid) = <<obj'[sid]>>
               /\ obj'[sid].state = IDLE
               /\ obj'[sid].config = config
               /\ obj'[sid].conversation_history = <<>>
               /\ obj'[sid].audio_buffer = <<>>
               /\ obj'[sid].transcript_buffer = <<>>
               /\ obj'[sid].state_history = <<>>
               /\ obj'[sid].metrics.total_turns = 0
               /\ obj'[sid].metrics.interruption_count = 0
               /\ obj'[sid].metrics.error_count = 0]_vars
  /\ [](\A sid \in SessionIds : ~Known(sid) => getSession(Store, sid) = <<>>)

C19_Witness ==
  \E sid \in sessions :
    /\ last = [op |-> "createSession", sid |-> sid, value |-> "session"]
    /\ getSession(Store, sid) # <<>>
    /\ obj[sid].state = IDLE

\* The sessions created and not deleted since.
Deleted(sid) == \E i \in DOMAIN emitted[sid] : emitted[sid][i].type = "session_deleted"
Live == {sid \in DOMAIN obj : ~Deleted(sid)}

\* C20: deleteSession on a registered session returns true, and afterwards
\* getSession returns nothing for it and the active sessions do not contain
\* it; on an id that is not registered (deleted before, or never created) it
\* returns false and changes nothing.  In every state the active sessions
\* are the sessions created and not deleted or cleaned up since.
C20_DeleteOnceThenAbsent ==
  /\ [][\A sid \in RegistryIds :
          (last'.op = "deleteSession" /\ CallDeleteSession(sid))
            => IF sid \in sessions
               THEN /\ last'.value = "true"
                    /\ getSession(StoreAfter, sid) = <<>>
                    /\ sid \notin getActiveSessions(StoreAfter)
               ELSE /\ last'.value = "false"
                    /\ StoreAfter = Store]_vars
  /\ [](getActiveSessions(Store) = Live)

C20_Witness ==
  \E sid \in DOMAIN obj :
    /\ last = [op |-> "deleteSession", sid |-> sid, value |-> "false"]
    /\ Deleted(sid)
    /\ getSession(Store, sid) = <<>>
    /\ Cardinality(getActiveSessions(Store)) = 2


\* The state_change observations of a sequence of observations.
StateChanges(observations) == SelectSeq(observations, LAMBDA o : o.type = "state_change")

\* The (from, to) pairs of a sequence of records.
Pairs(records) == [i \in DOMAIN records |-> <<records[i].from, records[i].to>>]

OlderThan(maxAgeMs) == {sid \in sessions : now - obj[sid].last_activity > maxAgeMs}

\* C22: the cleanup removes exactly the sessions whose last-activity age is
\* strictly greater than the bound and reports how many it removed; every
\* other session stays registered and unchanged; getSession returns nothing
\* for a removed id, and a connection that names an unregistered id is not
\* accepted.
C22_CleanupRemovesExactlyTheStale ==
  /\ [][\A maxAgeMs \in MaxAges :
          (last'.op = "cleanupStaleSessions" /\ CleanupIntervalFires(maxAgeMs))
            => /\ sessions' = sessions \ OlderThan(maxAgeMs)
               /\ last'.value = ToString(Cardinality(OlderThan(maxAgeMs)))
               /\ \A sid \in sessions \ OlderThan(maxAgeMs) : obj'[sid] = obj[sid]
               /\ \A sid \in OlderThan(maxAgeMs) : getSession(StoreAfter, sid) = <<>>]_vars
  /\ [][\A sid \in ControlIds :
          (sid \notin sessions /\ WsConnection(sid))
            => (connections' = connections /\ sent' = sent /\ sessions' = sessions)]_vars

C22_Witness ==
  \E a, b \in DOMAIN obj :
    /\ last = [op |-> "cleanupStaleSessions", sid |-> "", value |-> "1"]
    /\ a \notin sessions
    /\ obj[a].state = ENDED
    /\ b \in sessions
    /\ now - obj[b].last_activity = 1
    /\ obj[a].last_activity = now


\* A control request that names the session.
ControlRequest(sid) ==
  \/ GetSessionRoute(sid)
  \/ DeleteSessionRoute(sid)
  \/ InterruptRoute(sid)
  \/ HistoryRoute(sid)

\* C23: a control request (get, delete, interrupt, history) that names an id
\* not in the registry is answered 404, and a connection that names one is
\* closed with code 1008 and not kept; neither creates a session or changes
\* the registry.
C23_UnknownIdFailsDirectly ==
  [][\A sid \in AllIds :
       getSession(Store, sid) = <<>>
         => /\ ControlRequest(sid)
                 => /\ last'.value = "404"
                    /\ sessions' = sessions
                    /\ obj' = obj
            /\ WsConnection(sid)
                 => /\ last'.value = "1008"
                    /\ sessions' = sessions
                    /\ obj' = obj
                    /\ connections' = connections
                    /\ sent' = sent]_vars

C23_Witness ==
  \E sid \in DOMAIN obj :
    /\ last = [op |-> "connection", sid |-> sid, value |-> "1008"]
    /\ Deleted(sid)
    /\ sid \notin connections
    /\ sessions # {}


\* C24: in every state the state_change observations emitted for a session
\* are, in order, the records of its state_history, one observation for each
\* record and none for a rejected request; and the state_change frames sent
\* to a client that has been connected since before the first transition are
\* the states the records enter, in the same order.
C24_StateChangesMirrorHistory ==
  /\ \A sid \in DOMAIN obj :
       Pairs(StateChanges(emitted[sid])) = Pairs(History(sid))
  /\ \A sid \in sessions :
       (sid \in connections /\ Connects(sid) = 1)
         => [i \in DOMAIN FramesOf(sid, "state_change") |->
               FramesOf(sid, "state_change")[i].state]
              = [i \in DOMAIN History(sid) |-> History(sid)[i].to]

C24_Witness ==
  \E sid \in sessions :
    /\ sid \in connections
    /\ obj[sid].metrics.error_count = 2
    /\ LastTransitionIs(sid, ERROR, IDLE)
    /\ Len(FramesOf(sid, "state_change")) = Len(History(sid))
    /\ Len(History(sid)) = 4


\* C25: conversation_history only grows, by one turn at a time and only in
\* a step that records SPEAKING -> IDLE; and the answer of the synthesis of
\* a turn that was interrupted appends nothing, however late it arrives.
C25_HistoryGrowsOnlyOnCleanTurn ==
  [][\A sid \in sessions :
       /\ \/ obj'[sid].conversation_history = obj[sid].conversation_history
          \/ /\ Len(obj'[sid].conversation_history)
                  = Len(obj[sid].conversation_history) + 1
             /\ SubSeq(obj'[sid].conversation_history, 1,
                       Len(obj[sid].conversation_history))
                  = obj[sid].conversation_history
             /\ obj'[sid].state_history
                  = Append(obj[sid].state_history,
                           [from |-> SPEAKING, to |-> IDLE,
                            event |-> "state_change", metadata |-> NoMeta])
       /\ \A k \in DOMAIN turns[sid] :
            (/\ turns[sid][k].pc = "tts"
             /\ StopEmitted(sid, turns[sid][k].stream)
             /\ TtsResponds(sid, k, "ok"))
              => obj'[sid].conversation_history = obj[sid].conversation_history]_vars


\* C26: for a session in any of the eight non-terminal states,
\* transitionTo(INTERRUPTED) returns true and leaves the session INTERRUPTED.
C26_InterruptedFromAnyState ==
  [][\A sid \in sessions :
       (/\ last'.op = "transitionTo"
        /\ obj[sid].state \in NonTerminal
        /\ CallTransitionTo(sid, INTERRUPTED))
         => /\ last'.value = "true"
            /\ obj'[sid].state = INTERRUPTED]_vars


\* Valid JSON with a type field.
IsControlFrame(data) ==
  /\ data.json # <<>>
  /\ data.json[1].kind = "object"
  /\ data.json[1].type # <<>>

\* The types of client control frames the service knows.
KnownTypes == {"offer", "ice-candidate", "start-recording", "stop-recording", "interrupt"}

\* C27: a payload that is valid JSON with a type field is handled as a
\* control frame: it is not buffered and does not reach the VAD, and when
\* its type is unknown it changes nothing.  Every other payload, binary or
\* JSON without a type field, is handled as audio: it is appended to the
\* audio buffer and reaches the VAD.
C27_ControlFrameIffJsonWithType ==
  [][\A sid \in connections \cap sessions, data \in Payloads :
       (last'.op = "message" /\ WsMessage(sid, data))
         => IF IsControlFrame(data)
            THEN /\ obj'[sid].audio_buffer = obj[sid].audio_buffer
                 /\ audioStreams' = audioStreams
                 /\ silenceTimers' = silenceTimers
                 /\ data.json[1].type[1] \notin KnownTypes
                      => (obj' = obj /\ sent' = sent /\ emitted' = emitted)
            ELSE /\ Len(obj'[sid].audio_buffer) = Len(obj[sid].audio_buffer) + 1
                 /\ (data.bytes \in AudioFrames /\ isSpeaking(data.bytes))
                      => sid \in audioStreams']_vars


\* C28: a malformed inbound audio frame, one without bytes or with an odd
\* number of them, is dropped: the audio buffer and the state of the
\* session, the speaking flag and the silence timer are as they were.
C28_MalformedFrameIsDropped ==
  [][\A sid \in connections \cap sessions, frame \in MalformedFrames :
       (last'.op = "message" /\ WsMessage(sid, Binary(frame)))
         => /\ obj'[sid].audio_buffer = obj[sid].audio_buffer
            /\ obj'[sid].state = obj[sid].state
            /\ (sid \in audioStreams') = (sid \in audioStreams)
            /\ (sid \in silenceTimers') = (sid \in silenceTimers)]_vars


\* The soft cap of the audio buffer, in frames.  The source configures
\* none; a cap one frame below what a client sends here stands for it.
SoftCap == MaxFrames - 1

\* C29: the audio buffer of a session never holds more frames than the
\* soft cap, whatever the client sends and in whatever state.
C29_AudioBufferWithinSoftCap ==
  \A sid \in sessions : Len(obj[sid].audio_buffer) <= SoftCap


\* C30: a vad_start event does to a session that is ANSWERING or SPEAKING
\* what user_interrupt does: the session becomes INTERRUPTED, its
\* interruption_count grows by one and stop_tts is emitted; on an IDLE
\* session it causes IDLE -> LISTENING.
C30_VadStartInterrupts ==
  [][\A sid \in sessions, data \in EventData("vad_start") :
       (last'.op = "handleEvent" /\ CallHandleEvent(sid, "vad_start", data))
         => /\ obj[sid].state \in {ANSWERING, SPEAKING}
                 => /\ obj'[sid].state = INTERRUPTED
                    /\ obj'[sid].metrics.interruption_count
                         = obj[sid].metrics.interruption_count + 1
                    /\ Len(emitted'[sid]) > Len(emitted[sid])
                    /\ emitted'[sid][Len(emitted'[sid])].type = "stop_tts"
            /\ obj[sid].state = IDLE => obj'[sid].state = LISTENING]_vars


\* C31: a user_interrupt handled while the session is ANSWERING, after
\* llm_response_complete and before tts_start, moves the session to
\* INTERRUPTED and discards the pending response.
C31_InterruptWhileAnsweringDiscardsResponse ==
  [][\A sid \in sessions, data \in EventData("user_interrupt") :
       (/\ last'.op = "handleEvent"
        /\ obj[sid].state = ANSWERING
        /\ CallHandleEvent(sid, "user_interrupt", data))
         => /\ obj'[sid].state = INTERRUPTED
            /\ obj'[sid].pending_response = <<>>]_vars


\* The stop-tts frames among frames.
StopFrames(frames) == {i \in DOMAIN frames : frames[i].type = "stop-tts"}

\* The stop_tts observations among observations.
StopSignals(observations) == {i \in DOMAIN observations : observations[i].type = "stop_tts"}

AboveVadThreshold(frame) ==
  LET samples == Len(frame) \div 2
  IN /\ samples > 0
     /\ sumOfSquares(frame, 0) > 107374 * samples + (1824 * samples) \div 10000

AtVadThreshold(frame) ==
  LET samples == Len(frame) \div 2
  IN /\ samples > 0
     /\ (1824 * samples) % 10000 = 0
     /\ sumOfSquares(frame, 0) = 107374 * samples + (1824 * samples) \div 10000

\* C33: a frame whose energy is strictly above the threshold cancels a
\* pending silence timer and makes the handler emit vad_start exactly when
\* the session was not in a speech region; a frame whose energy equals the
\* threshold emits nothing, cancels no pending silence timer and starts no
\* speech region.
C33_SpeechOnlyAboveThreshold ==
  [][\A sid \in connections, frame \in ThresholdFrames :
       (last'.op = "service" /\ WsAudio(sid, frame))
         => /\ AboveVadThreshold(frame) \/ AtVadThreshold(frame)
            /\ AboveVadThreshold(frame)
                 => /\ sid \notin silenceTimers'
                    /\ sid \in audioStreams'
                    /\ vadEvents'[sid] =
                         IF sid \in audioStreams
                         THEN vadEvents[sid]
                         ELSE Append(vadEvents[sid], "vad_start")
            /\ AtVadThreshold(frame)
                 => /\ vadEvents'[sid] = vadEvents[sid]
                    /\ sid \in silenceTimers => sid \in silenceTimers'
                    /\ audioStreams' = audioStreams]_vars

\* Only a frame at the threshold arms the silence timer here: one has
\* arrived in a speech region and was taken for silence.
C33_Witness ==
  \E sid \in connections :
    /\ sid \in audioStreams
    /\ sid \in silenceTimers
    /\ vadEvents[sid] = <<"vad_start">>


\* The states in which a turn is being processed, and those in which the
\* session waits for the user or is over.
ProcessingStates == {TRANSCRIBING, INTERPRETING, ANSWERING, SPEAKING}
RestingStates == {IDLE, LISTENING, ENDED}

InFlight(sid) == {k \in DOMAIN turns[sid] : turns[sid][k].pc # "done"}

\* C35: a session has at most one turn pipeline in flight, and a step
\* starts a pipeline only when it moves the session from LISTENING to
\* TRANSCRIBING.
C35_OnePipelineStartedFromListening ==
  /\ [](\A sid \in SessionIds : Cardinality(InFlight(sid)) <= 1)
  /\ [][\A sid \in sessions :
          Len(turns'[sid]) > Len(turns[sid])
            => /\ obj[sid].state = LISTENING
               /\ obj'[sid].state = TRANSCRIBING]_vars


\* C36: in every state a session's error_count is the number of records in
\* its state_history that enter ERROR.
C36_ErrorCountCountsErrorEntries ==
  \A sid \in DOMAIN obj :
    obj[sid].metrics.error_count = Cardinality(Entries(sid, ERROR))


\* C37: the callback that takes a session from ERROR to IDLE is the one
\* that was armed when the session entered the ERROR episode it ends, not
\* one armed by an earlier error event or by an error event whose
\* transition to ERROR was rejected.
C37_RecoveryByTimerOfSameEpisode ==
  [][\A sid \in sessions :
       (/\ timers[sid].error # <<>>
        /\ timers'[sid].error = Tail(timers[sid].error)
        /\ obj[sid].state = ERROR
        /\ obj'[sid].state = IDLE)
         => /\ Head(timers[sid].error).entered
            /\ Head(timers[sid].error).episode = Episodes(obj[sid].state_history)]_vars


\* The state_change observations a step added for the session.
Added(sid) ==
  StateChanges(SubSeq(emitted'[sid], Len(emitted[sid]) + 1, Len(emitted'[sid])))

\* C38: when the state_change observation of a transition is delivered, the
\* session it carries already shows every side effect of the event that
\* caused the transition: for SPEAKING to IDLE the turn in conversation_history,
\* total_turns counted and transcript_buffer, pending_response and
\* tts_stream_id cleared; into INTERRUPTED interruption_count counted; into
\* ERROR error_count counted; for TRANSCRIBING to INTERPRETING audio_buffer
\* cleared.
C38_ObserversSeeSideEffects ==
  [][\A sid \in sessions \cap sessions' :
       (/\ last'.op \in {"handleEvent", "processTurn"}
        /\ Len(emitted'[sid]) >= Len(emitted[sid])
        /\ Len(Added(sid)) = 1
        /\ Len(delivered'[sid]) = 1)
         => LET change == Added(sid)[1]
                seen == delivered'[sid][1]
                after == obj'[sid]
            IN /\ (change.from = SPEAKING /\ change.to = IDLE)
                    => /\ seen.conversation_history = after.conversation_history
                       /\ seen.metrics.total_turns = after.metrics.total_turns
                       /\ seen.transcript_buffer = after.transcript_buffer
                       /\ seen.pending_response = after.pending_response
                       /\ seen.tts_stream_id = after.tts_stream_id
               /\ change.to = INTERRUPTED
                    => seen.metrics.interruption_count = after.metrics.interruption_count
               /\ change.to = ERROR
                    => seen.metrics.error_count = after.metrics.error_count
               /\ (change.from = TRANSCRIBING /\ change.to = INTERPRETING)
                    => seen.audio_buffer = after.audio_buffer]_vars


\* C39: in every state a session with an open client socket has an entry in
\* connections, so that the frames sent to it reach the client: whatever the
\* order of connects and closes on one session_id, the close of one socket
\* does not take the entry of another socket that is open.
C39_OpenSocketIsRegistered ==
  \A sid \in AllIds : sockets[sid] > 0 => sid \in connections


\* vad_start and vad_end take turns in the sequence, vad_start first.
Alternate(events) ==
  \A i \in DOMAIN events : events[i] = IF i % 2 = 1 THEN "vad_start" ELSE "vad_end"

\* C40: for each session, over any sequence of frames, silence-timer
\* firings, disconnects and reconnects, the VAD_START and VAD_END events of
\* the WebRTCHandler alternate strictly, VAD_START first; and VAD_END is
\* emitted only by the silence timer, which no frame above the threshold has
\* followed since it was armed: such a frame leaves no timer pending.
C40_VadEventsAlternate ==
  /\ [](\A sid \in AllIds : Alternate(vadEvents[sid]))
  /\ [][\A sid \in AllIds :
          /\ vadEvents'[sid] # vadEvents[sid]
               => \/ vadEvents'[sid] = Append(vadEvents[sid], "vad_start")
                  \/ /\ vadEvents'[sid] = Append(vadEvents[sid], "vad_end")
                     /\ sid \in silenceTimers
                     /\ sid \notin silenceTimers'
          /\ \A frame \in ThresholdFrames :
               (isSpeaking(frame) /\ WsAudio(sid, frame)) => sid \notin silenceTimers']_vars

====
